---- MODULE Spec2Model ----
(***************************************************************************)
(* Recommender-System front end: the App component (plain variant,         *)
(* frontend/src/App.js, and authenticated variant, unnamed/part_006), the  *)
(* API client (unnamed/part_005) and the BrowsingHistory panel             *)
(* (unnamed/part_003).                                                     *)
(*                                                                         *)
(* React state is modelled the way React runs it: a handler reads the      *)
(* values of the render it was created in (browsingHistory,                *)
(* recommendations, isLoading, currentPage) and queues updates; the        *)
(* queued updates are applied in order when the component renders again.   *)
(* For each hook the model keeps the rendered value and the value the      *)
(* queue leads to (next...); a plain set replaces the latter, a functional *)
(* update is applied to it.                                                *)
(***************************************************************************)
EXTENDS Integers, Sequences, FiniteSets, Bags, TLC

\* ------------------------------------------------------------------ bounds
MaxHist == 2
MaxInFlight == 2
MaxRequests == 2

\* ---------------------------------------------------------------- universe
ProductIds == {"p1", "p2"}

\* Replies the recommendations endpoint may give (lists of product ids).
RecLists == {<<>>, <<"p1">>, <<"p2", "p1">>}

Range(s) == {s[i] : i \in 1..Len(s)}

NoDuplicates(s) == \A i, j \in 1..Len(s) : i # j => s[i] # s[j]

VARIABLES
  variant,              \* "plain" (App.js) or "auth" (part_006 AppContent)
  products,             \* TRUE once fetchProducts has filled the catalog
  browsingHistory,      \* rendered value of the browsingHistory hook
  nextHistory,          \* value after the queued setBrowsingHistory updates
  recommendations,      \* rendered value of the recommendations hook
  nextRecommendations,
  isLoading,            \* isRecommendationsLoading / isLoading, rendered
  nextIsLoading,
  currentPage,          \* part_006 only: "catalog" or "recommendations"
  nextPage,
  serverHistory,        \* the history the server holds for the user
  net,                  \* bag of history requests/responses in flight
  recInFlight,          \* recommendation calls awaiting their reply
  recCalls,             \* outbound calls to /recommendations so far
  recAccepted,          \* handleGetRecommendations invocations that went on
  recOutcome,           \* how the last settled call ended: none, ok, failed
  viewOrder,            \* ids in order of first click since the last clear
  cleared,              \* TRUE from a clear until the next product click
  repeatClick,          \* TRUE iff the last click found its id rendered
  panelHistory,         \* BrowsingHistory panel: the history prop
  panelProducts,        \* BrowsingHistory panel: the products prop
  panelSummary,         \* BrowsingHistory panel: the rendered summary line
  panelItems,           \* BrowsingHistory panel: the items listed, the log
  formValues,           \* UserPreferences form: rendered value of the hook
  nextFormValues,       \* UserPreferences form: value after the queued set
  userPreferences,      \* App: the userPreferences hook after its updates
  lastUpdate,           \* the object last passed to handlePreferencesChange
  filterProducts,       \* PreferenceFilter: the product set given
  filterPreferences,    \* PreferenceFilter: the Preferences given
  filterResult,         \* PreferenceFilter: its output, once it has run
  parserReply,          \* RecommendationResponseParser: the raw reply
  parserStore,          \* RecommendationResponseParser: ids in ProductStore
  parserResult,         \* RecommendationResponseParser: its output
  catProducts,          \* Catalog (part_002): the products prop
  sortBy,               \* Catalog (part_002): the sortBy hook
  filterCategory,       \* Catalog (part_002): the filterCategory hook
  catShown              \* Catalog (part_002): the cards rendered, in order

appVars == <<variant, products, browsingHistory, nextHistory, recommendations,
             nextRecommendations, isLoading, nextIsLoading, currentPage,
             nextPage, serverHistory, net, recInFlight, recCalls, recAccepted,
             recOutcome, viewOrder, cleared, repeatClick>>

panelVars == <<panelHistory, panelProducts, panelSummary, panelItems>>

prefVars == <<formValues, nextFormValues, userPreferences, lastUpdate>>

filterVars == <<filterProducts, filterPreferences, filterResult>>

parserVars == <<parserReply, parserStore, parserResult>>

catalogVars == <<catProducts, sortBy, filterCategory, catShown>>

\* The components that are modelled on their own, outside the App.
otherVars == <<panelVars, prefVars, filterVars, parserVars, catalogVars>>

vars == <<appVars, otherVars>>

\* ------------------------------------------------------------ history hook
\* App.js 51-56: the guard reads the rendered history and the update sets the
\* hook to a value computed from the rendered history.
\* The handler of App.js 51-56 without the includes() test of line 53.
PlainRecordUnguarded(rendered, queued, id) == Append(rendered, id)

PlainRecord(rendered, queued, id) ==
  IF id \notin Range(rendered) THEN Append(rendered, id) ELSE queued

\* part_006 84-88: the guard reads the rendered history, the update is the
\* functional prevHistory => [productId, ...prevHistory].
AuthRecord(rendered, queued, id) ==
  IF id \notin Range(rendered) THEN <<id>> \o queued ELSE queued

\* What handleProductClick leaves queued for the local history.
Record(v, rendered, queued, id) ==
  IF v = "plain" THEN PlainRecord(rendered, queued, id)
  ELSE AuthRecord(rendered, queued, id)

\* ------------------------------------------------------------ the server
\* The history service behind addToBrowsingHistory: record(productId) appends
\* the id if it is not already present.
ServerRecord(h, id) == IF id \in Range(h) THEN h ELSE Append(h, id)

\* Histories a returning user's account may hold when the session starts.
ServerInit == {<<>>, <<"p2">>}

Request(kind, id) == [dir |-> "req", kind |-> kind, id |-> id]

Response(kind, success, h) ==
  [dir |-> "resp", kind |-> kind, success |-> success, browsing_history |-> h]

Send(m) == net (+) SetToBag({m})

Take(m) == net (-) SetToBag({m})

InFlight == BagToSet(net)

Room == BagCardinality(net) < MaxInFlight

\* ------------------------------------------------------------- API client
RecResponses ==
  [ok : BOOLEAN, parsable : BOOLEAN, success : BOOLEAN, recommendations : RecLists]

\* part_005 110-138 without the data.success test of lines 129-131.
getRecommendationsIgnoringSuccess(resp) ==
  IF ~resp.ok THEN [thrown |-> TRUE]
  ELSE IF ~resp.parsable THEN [thrown |-> TRUE]
  ELSE [thrown |-> FALSE, value |-> resp.recommendations]

\* part_005 110-138 returning the list of the reply last entry first.
getRecommendationsReversed(resp) ==
  IF ~resp.ok THEN [thrown |-> TRUE]
  ELSE IF ~resp.parsable THEN [thrown |-> TRUE]
  ELSE IF ~resp.success THEN [thrown |-> TRUE]
  ELSE [thrown |-> FALSE,
        value |-> [i \in 1..Len(resp.recommendations) |->
                     resp.recommendations[Len(resp.recommendations) + 1 - i]]]

\* part_005 110-138: throws on a non-ok status, on a body that does not parse
\* and on success = false; otherwise returns data.recommendations.
getRecommendations(resp) ==
  IF ~resp.ok THEN [thrown |-> TRUE]
  ELSE IF ~resp.parsable THEN [thrown |-> TRUE]
  ELSE IF ~resp.success THEN [thrown |-> TRUE]
  ELSE [thrown |-> FALSE, value |-> resp.recommendations]

\* ------------------------------------------------------------------- views
\* part_000 4-31 (and part_001 4-27): what the Recommendations panel shows.
RecommendationsView(loading, recs) ==
  IF loading THEN "loading"
  ELSE IF Len(recs) = 0 THEN "empty"
  ELSE "list"

\* part_000 40-42 (and part_001 32-34): one card per entry, in the order of
\* the array, the entry at index i - 1 of the array under the rank i - 1 + 1.
RecommendationCards(recs) ==
  [i \in 1..Len(recs) |-> [rank |-> (i - 1) + 1, entry |-> recs[i]]]

\* App.js 110-114 / part_006 195-199: the Get Recommendations button.
ButtonEnabled ==
  IF variant = "plain" THEN ~isLoading /\ Len(browsingHistory) # 0
  ELSE ~isLoading

\* --------------------------------------------------- BrowsingHistory panel
\* part_003, given any history and catalog. Prices are whole dollars; the
\* average of the summary line is kept in cents, as toFixed(2) prints it.
MaxPanelHist == 3

Categories == {"A", "B"}

Prices == {10, 25, 45}

CatalogIds == <<"p1", "p2", "p3">>

\* "p9" is an id no catalog holds.
PanelIds == {"p1", "p2", "p3", "p9"}

Catalogs ==
  {<<>>} \cup
  { [i \in 1..3 |-> [id |-> CatalogIds[i], category |-> c[i], price |-> x[i]]] :
      c \in [1..3 -> Categories], x \in [1..3 -> Prices] }

PanelHistories == UNION { [1..n -> PanelIds] : n \in 0..MaxPanelHist }

\* What a lookup of an id that is no key of productLookup gives.
Undefined == [id |-> "undefined", category |-> "undefined", price |-> 0]

\* part_003 10-13 and 18: the lookup object, a later product replacing an
\* earlier one of the same id.
productLookup(prods, id) ==
  LET hits == {i \in 1..Len(prods) : prods[i].id = id}
  IN IF hits = {} THEN Undefined
     ELSE prods[CHOOSE i \in hits : \A j \in hits : j <= i]

Reverse(s) == [i \in 1..Len(s) |-> s[Len(s) + 1 - i]]

\* part_003 16-18 without the filter of line 19.
getHistoryProductsUnfiltered(history, prods) ==
  [i \in 1..Len(history) |-> productLookup(prods, Reverse(history)[i])]

\* part_003 16-19 without the reverse of line 17.
getHistoryProductsUnreversed(history, prods) ==
  SelectSeq([i \in 1..Len(history) |-> productLookup(prods, history[i])],
            LAMBDA p : p # Undefined)

\* part_003 6-20: reverse, map through the lookup, drop the undefined.
getHistoryProducts(history, prods) ==
  SelectSeq([i \in 1..Len(history) |->
               productLookup(prods, Reverse(history)[i])],
            LAMBDA p : p # Undefined)

\* part_003 80-84: the entries of categoryCounts, in the order the keys were
\* first set (the order Object.entries lists names that are no integers).
RECURSIVE categoryCounts(_)
categoryCounts(prods) ==
  IF prods = <<>> THEN <<>>
  ELSE LET before == categoryCounts(SubSeq(prods, 1, Len(prods) - 1))
           category == prods[Len(prods)].category
       IN IF \E k \in 1..Len(before) : before[k].category = category
            THEN [k \in 1..Len(before) |->
                    IF before[k].category = category
                      THEN [before[k] EXCEPT !.count = @ + 1]
                      ELSE before[k]]
            ELSE Append(before, [category |-> category, count |-> 1])

\* The loop of part_003 90-95 with >= for >: the last of the highest wins.
RECURSIVE mostViewedLastWins(_, _, _)
mostViewedLastWins(entries, mostViewedCategory, highestCount) ==
  IF entries = <<>> THEN mostViewedCategory
  ELSE IF Head(entries).count >= highestCount
    THEN mostViewedLastWins(Tail(entries), Head(entries).category,
                            Head(entries).count)
    ELSE mostViewedLastWins(Tail(entries), mostViewedCategory, highestCount)

\* part_003 87-95: the entry that is first to exceed every count before it.
RECURSIVE mostViewed(_, _, _)
mostViewed(entries, mostViewedCategory, highestCount) ==
  IF entries = <<>> THEN mostViewedCategory
  ELSE IF Head(entries).count > highestCount
    THEN mostViewed(Tail(entries), Head(entries).category, Head(entries).count)
    ELSE mostViewed(Tail(entries), mostViewedCategory, highestCount)

\* part_003 98: the reduce.
RECURSIVE totalPrice(_)
totalPrice(prods) ==
  IF prods = <<>> THEN 0
  ELSE totalPrice(SubSeq(prods, 1, Len(prods) - 1))
         + prods[Len(prods)].price

\* part_003 99 and 101: totalPrice / products.length printed by toFixed(2),
\* which rounds to the nearest cent, a half upwards.
toFixed2(total, n) == (200 * total + n) \div (2 * n)

\* part_003 78-102. Over no product the division of line 99 is 0 / 0, which
\* is NaN and printed as "NaN": avgIsNaN.
getSummary(prods) ==
  [state |-> "summary",
   mostViewedCategory |-> mostViewed(categoryCounts(prods), "", 0),
   avgIsNaN |-> Len(prods) = 0,
   avgPrice |-> IF Len(prods) = 0 THEN 0
                ELSE toFixed2(totalPrice(prods), Len(prods))]

\* The panel without the length test of part_003 68.
BrowsingHistoryPanelUnguarded(history, prods) ==
  getSummary(getHistoryProducts(history, prods))

\* part_003 22 and 68-72: the summary line is rendered while the panel has
\* at least one product.
BrowsingHistoryPanel(history, prods) ==
  LET historyProducts == getHistoryProducts(history, prods)
  IN IF Len(historyProducts) > 0 THEN getSummary(historyProducts)
     ELSE [state |-> "empty"]

\* part_004 18-20: each id mapped to the first product that has it, the
\* undefined dropped.
historyProducts004(history, prods) ==
  SelectSeq([i \in 1..Len(history) |->
               LET hits == {k \in 1..Len(prods) : prods[k].id = history[i]}
               IN IF hits = {} THEN Undefined
                  ELSE prods[CHOOSE k \in hits : \A j \in hits : k <= j]],
            LAMBDA p : p # Undefined)

\* What the two panels list and write to the console for given props:
\* historyProducts of part_003 22 and of part_004 18-20. Neither file calls
\* console.warn, console.error or console.log.
PanelItems(history, prods) ==
  [part003 |-> getHistoryProducts(history, prods),
   part004 |-> historyProducts004(history, prods),
   logged |-> <<>>]

NoItems == [part003 |-> <<>>, part004 |-> <<>>, logged |-> <<>>]

PanelIdle ==
  /\ panelHistory = <<>>
  /\ panelProducts = <<>>
  /\ panelSummary = [state |-> "unrendered"]
  /\ panelItems = NoItems

PanelInit ==
  /\ panelHistory \in PanelHistories
  /\ panelProducts \in Catalogs
  /\ panelSummary = [state |-> "unrendered"]
  /\ panelItems = NoItems

\* ------------------------------------------------------------------- Init
\* ---------------------------------------------------------- preferences
\* UserPreferences.js 17-23: the ids of the price range options, in order.
priceRanges == <<"all", "0-50", "50-100", "100-200", "200+">>

\* The categories and brands of the catalog the form is given
\* (UserPreferences.js 13-14).
FormCategories == {"A", "B"}

FormBrands == {"X", "Y"}

\* App.js 16-20: the initial userPreferences; UserPreferences.js 6-10 copies
\* its fields into the initial formValues.
InitialPreferences == [priceRange |-> "all", categories |-> <<>>, brands |-> <<>>]

\* setUserPreferences(prev => ({...newPreferences, ...prev})): the spreads of
\* App.js 61-62 in the other order.
MergePreviousWins(prevPreferences, newPreferences) ==
  [f \in DOMAIN prevPreferences \cup DOMAIN newPreferences |->
     IF f \in DOMAIN prevPreferences THEN prevPreferences[f]
     ELSE newPreferences[f]]

\* App.js 60-63: ({...prevPreferences, ...newPreferences}), applied to the
\* latest value of the hook.
MergePreferences(prevPreferences, newPreferences) ==
  [f \in DOMAIN prevPreferences \cup DOMAIN newPreferences |->
     IF f \in DOMAIN newPreferences THEN newPreferences[f]
     ELSE prevPreferences[f]]

\* The lists of UserPreferences.js 46 and 49 with the append of line 46 in
\* both branches.
ToggledAlwaysAppend(list, item, isChecked) == Append(list, item)

\* UserPreferences.js 46 and 49 (64 and 67): the list with the item appended
\* when the box was ticked, without it when it was unticked.
Toggled(list, item, isChecked) ==
  IF isChecked THEN Append(list, item)
  ELSE SelectSeq(list, LAMBDA x : x # item)

PrefsIdle ==
  /\ formValues = InitialPreferences
  /\ nextFormValues = InitialPreferences
  /\ userPreferences = InitialPreferences
  /\ lastUpdate = InitialPreferences

\* ------------------------------------------------------ PreferenceFilter
\* The filter of the service (spec section 4.1); its code is not part of the
\* sources at hand. Prices are whole dollars.
FilterPool ==
  <<[id |-> "p1", price |-> 30, category |-> "A", brand |-> "X"],
    [id |-> "p2", price |-> 120, category |-> "B", brand |-> "Y"],
    [id |-> "p3", price |-> 50, category |-> "A", brand |-> "Y"],
    [id |-> "p4", price |-> 100, category |-> "B", brand |-> "X"],
    [id |-> "p5", price |-> 0, category |-> "B", brand |-> "X"],
    [id |-> "p6", price |-> 200, category |-> "A", brand |-> "Y"]>>

\* The k-th smallest member of a set of numbers.
Kth(S, k) == CHOOSE i \in S : Cardinality({j \in S : j <= i}) = k

\* Every catalog that keeps some of the pool, in the pool's order.
FilterCatalogs ==
  { [k \in 1..Cardinality(S) |-> FilterPool[Kth(S, k)]] :
      S \in SUBSET (1..Len(FilterPool)) }

FilterPriceRanges == {"all", "0-50", "50-100", "100-200", "200+", "100+"}

FilterPreferences ==
  [priceRange : FilterPriceRanges, categories : SUBSET {"A", "B"},
   brands : SUBSET {"X", "Y"}]

\* Buckets that include their upper bound.
InBucketClosed(price, priceRange) ==
  CASE priceRange = "all" -> TRUE
    [] priceRange = "0-50" -> 0 <= price /\ price <= 50
    [] priceRange = "50-100" -> 50 <= price /\ price <= 100
    [] priceRange = "100-200" -> 100 <= price /\ price <= 200
    [] priceRange = "200+" -> 200 <= price
    [] priceRange = "100+" -> 100 <= price

\* Section 4.1: "a-b" is [a, b), "a+" is [a, infinity), 'all' is every price.
InBucket(price, priceRange) ==
  CASE priceRange = "all" -> TRUE
    [] priceRange = "0-50" -> 0 <= price /\ price < 50
    [] priceRange = "50-100" -> 50 <= price /\ price < 100
    [] priceRange = "100-200" -> 100 <= price /\ price < 200
    [] priceRange = "200+" -> 200 <= price
    [] priceRange = "100+" -> 100 <= price

\* Section 4.1: the products in the bucket, of a selected category if any is
\* selected, of a selected brand if any is selected.
PreferenceFilter(prods, preferences) ==
  SelectSeq(prods,
            LAMBDA p :
              /\ InBucket(p.price, preferences.priceRange)
              /\ (preferences.categories # {}
                    => p.category \in preferences.categories)
              /\ (preferences.brands # {} => p.brand \in preferences.brands))

NotRun == [done |-> FALSE, products |-> <<>>]

FilterIdle ==
  /\ filterProducts = <<>>
  /\ filterPreferences = [priceRange |-> "all", categories |-> {}, brands |-> {}]
  /\ filterResult = NotRun

FilterInit ==
  /\ filterProducts \in FilterCatalogs
  /\ filterPreferences \in FilterPreferences
  /\ filterResult = NotRun

\* --------------------------------------------- RecommendationResponseParser
\* The parser of the service (spec section 4.4); its code is not part of the
\* sources at hand. A relevance score is kept in tenths.
MaxReply == 3

ReplyEntries == [product_id : {"p1", "p2", "p9"}, relevance_score : {-2, 5, 14}]

Replies ==
  [wellFormed : BOOLEAN,
   entries : UNION { [1..n -> ReplyEntries] : n \in 0..MaxReply }]

ProductStores == {{}, {"p1"}, {"p1", "p2"}}

\* Section 4.4: a score out of range is clamped to [0, 1].
Clamp(score) == IF score < 0 THEN 0 ELSE IF score > 10 THEN 10 ELSE score

Unparsed == [failed |-> FALSE, recommendations |-> <<>>, warnings |-> 0]

\* A parser that gives up on the first entry of no product.
RECURSIVE ParseEntriesStrict(_, _, _)
ParseEntriesStrict(entries, store, parsed) ==
  IF entries = <<>> THEN parsed
  ELSE IF Head(entries).product_id \notin store
    THEN [failed |-> TRUE, recommendations |-> <<>>,
          warnings |-> parsed.warnings + 1]
    ELSE ParseEntriesStrict(Tail(entries), store,
           [parsed EXCEPT !.recommendations =
              Append(@, [product |-> Head(entries).product_id,
                         relevance_score |-> Clamp(Head(entries).relevance_score)])])

\* Section 4.4: entry by entry; an entry of no product is dropped with a
\* warning, any other is kept with its score clamped.
RECURSIVE ParseEntries(_, _, _)
ParseEntries(entries, store, parsed) ==
  IF entries = <<>> THEN parsed
  ELSE IF Head(entries).product_id \notin store
    THEN ParseEntries(Tail(entries), store,
                      [parsed EXCEPT !.warnings = @ + 1])
    ELSE ParseEntries(Tail(entries), store,
           [parsed EXCEPT !.recommendations =
              Append(@, [product |-> Head(entries).product_id,
                         relevance_score |-> Clamp(Head(entries).relevance_score)])])

\* Sections 4.4 and 7: a malformed reply is a single failure with no partial
\* result.
RecommendationResponseParser(reply, store) ==
  IF ~reply.wellFormed
    THEN [failed |-> TRUE, recommendations |-> <<>>, warnings |-> 0]
    ELSE ParseEntries(reply.entries, store, Unparsed)

ParserIdle ==
  /\ parserReply = [wellFormed |-> TRUE, entries |-> <<>>]
  /\ parserStore = {}
  /\ parserResult = [done |-> FALSE]

ParserInit ==
  /\ parserReply \in Replies
  /\ parserStore \in ProductStores
  /\ parserResult = [done |-> FALSE]

\* ------------------------------------------------------ Catalog (part_002)
MaxCatalog == 3

\* Products that tie on price, on rating and on name. Ratings are in tenths.
CatalogPool ==
  {[id |-> "p1", name |-> "beta", category |-> "A", price |-> 25, rating |-> 45],
   [id |-> "p2", name |-> "Alpha", category |-> "B", price |-> 10, rating |-> 40],
   [id |-> "p3", name |-> "Gamma", category |-> "A", price |-> 10, rating |-> 45],
   [id |-> "p4", name |-> "Alpha", category |-> "A", price |-> 25, rating |-> 30]}

\* Every catalog of up to MaxCatalog different products of the pool, in
\* every order.
CatalogInputs ==
  UNION { {c \in [1..n -> CatalogPool] :
             \A i, j \in 1..n : i # j => c[i] # c[j]} : n \in 0..MaxCatalog }

\* part_002 74-77: the values of the sort select.
SortOptions == {"name", "price-low", "price-high", "rating"}

\* The order of String.prototype.localeCompare (part_002 31) on the names
\* used: alphabetical, whatever the case.
Collation == <<"Alpha", "beta", "Gamma">>

localeCompare(a, b) ==
  (CHOOSE i \in 1..Len(Collation) : Collation[i] = a)
    - (CHOOSE i \in 1..Len(Collation) : Collation[i] = b)

\* The comparator of part_002 22-33 with the operands of line 28 exchanged.
compareRatingAscending(a, b, by) ==
  IF by = "price-low" THEN a.price - b.price
  ELSE IF by = "price-high" THEN b.price - a.price
  ELSE IF by = "rating" THEN a.rating - b.rating
  ELSE localeCompare(a.name, b.name)

\* part_002 22-33: the comparator.
compare(a, b, by) ==
  IF by = "price-low" THEN a.price - b.price
  ELSE IF by = "price-high" THEN b.price - a.price
  ELSE IF by = "rating" THEN b.rating - a.rating
  ELSE localeCompare(a.name, b.name)

\* Array.prototype.sort with a comparator: a stable sort.
RECURSIVE sort(_, _)
sort(list, by) ==
  IF list = <<>> THEN <<>>
  ELSE LET before == sort(SubSeq(list, 1, Len(list) - 1), by)
           x == list[Len(list)]
           k == Cardinality({i \in 1..Len(before) : compare(before[i], x, by) <= 0})
       IN SubSeq(before, 1, k) \o <<x>> \o SubSeq(before, k + 1, Len(before))

\* part_002 13-36 without the copy of line 14: with no category selected the
\* array sorted in place is the products prop itself.
sortAndFilterProductsInPlace(prods, by, cat) ==
  IF cat # ""
    THEN [returned |-> sort(SelectSeq(prods, LAMBDA p : p.category = cat), by),
          products |-> prods]
    ELSE [returned |-> sort(prods, by), products |-> sort(prods, by)]

\* part_002 13-36: copy, filter when a category is selected, sort the copy.
\* returned is the array returned, products the products prop afterwards.
sortAndFilterProducts(prods, by, cat) ==
  LET filteredProducts ==
        IF cat # "" THEN SelectSeq(prods, LAMBDA p : p.category = cat)
        ELSE prods
  IN [returned |-> sort(filteredProducts, by), products |-> prods]

CatalogIdle ==
  /\ catProducts = <<>>
  /\ sortBy = "name"
  /\ filterCategory = ""
  /\ catShown = <<>>

\* part_002 6-7 and 83: the first render.
CatalogInit ==
  /\ catProducts \in CatalogInputs
  /\ sortBy = "name"
  /\ filterCategory = ""
  /\ catShown = sortAndFilterProducts(catProducts, "name", "").returned

AppInit ==
  /\ variant \in {"plain", "auth"}
  /\ products = FALSE
  /\ browsingHistory = <<>>
  /\ nextHistory = <<>>
  /\ recommendations = <<>>
  /\ nextRecommendations = <<>>
  /\ isLoading = FALSE
  /\ nextIsLoading = FALSE
  /\ currentPage = "catalog"
  /\ nextPage = "catalog"
  /\ serverHistory \in (IF variant = "auth" THEN ServerInit ELSE {<<>>})
  /\ net = EmptyBag
  /\ recInFlight = 0
  /\ recCalls = 0
  /\ recAccepted = 0
  /\ recOutcome = "none"
  /\ viewOrder = <<>>
  /\ cleared = FALSE
  /\ repeatClick = FALSE

Init ==
  AppInit /\ PanelIdle /\ PrefsIdle /\ FilterIdle /\ ParserIdle /\ CatalogIdle

histVars == <<browsingHistory, nextHistory>>
recVars == <<recommendations, nextRecommendations, isLoading, nextIsLoading,
             recInFlight, recCalls, recAccepted, recOutcome>>
pageVars == <<currentPage, nextPage>>
ghostVars == <<viewOrder, cleared, repeatClick>>

\* ---------------------------------------------------------------- actions
\* App.js 32-48 / part_006 50-61: fetchProducts fills the catalog; in the
\* authenticated variant the effect of part_006 64-81 then asks the server
\* for the stored history.
LoadProducts ==
  /\ ~products
  /\ products' = TRUE
  /\ net' = IF variant = "auth" THEN Send(Request("sync", "-")) ELSE net
  /\ UNCHANGED <<otherVars, variant, histVars, recVars, pageVars, serverHistory, ghostVars>>

\* React renders again: every queued update takes effect.
Render ==
  /\ <<nextHistory, nextRecommendations, nextIsLoading, nextPage>>
       # <<browsingHistory, recommendations, isLoading, currentPage>>
  /\ browsingHistory' = nextHistory
  /\ recommendations' = nextRecommendations
  /\ isLoading' = nextIsLoading
  /\ currentPage' = nextPage
  /\ UNCHANGED <<otherVars, variant, products, nextHistory, nextRecommendations,
                 nextIsLoading, nextPage, serverHistory, net, recInFlight,
                 recCalls, recAccepted, recOutcome, ghostVars>>

NoteClick(id) ==
  /\ viewOrder' = IF id \in Range(viewOrder) THEN viewOrder
                  ELSE Append(viewOrder, id)
  /\ cleared' = FALSE
  /\ repeatClick' = (id \in Range(browsingHistory))

\* App.js 51-56, reached from a product card of the Catalog.
PlainProductClick(id) ==
  /\ variant = "plain"
  /\ products
  /\ nextHistory' = Record(variant, browsingHistory, nextHistory, id)
  /\ NoteClick(id)
  /\ UNCHANGED <<otherVars, variant, products, browsingHistory, recVars, pageVars,
                 serverHistory, net>>

\* part_006 84-102 up to the await: the local update and the request to the
\* server. The Catalog is rendered on the catalog page only (part_006 205).
AuthProductClick(id) ==
  /\ variant = "auth"
  /\ products
  /\ currentPage = "catalog"
  /\ Room
  /\ Len(Record(variant, browsingHistory, nextHistory, id)) <= MaxHist
  /\ nextHistory' = Record(variant, browsingHistory, nextHistory, id)
  /\ net' = Send(Request("add", id))
  /\ NoteClick(id)
  /\ UNCHANGED <<otherVars, variant, products, browsingHistory, recVars, pageVars,
                 serverHistory>>

\* App.js 83-85 / part_006 124-136 up to the await; the Clear button is shown
\* while the panel has items (part_003 35, part_004 6).
ClearHistory ==
  /\ Len(browsingHistory) > 0
  /\ variant = "auth" => Room
  /\ nextHistory' = <<>>
  /\ net' = IF variant = "auth" THEN Send(Request("clear", "-")) ELSE net
  /\ viewOrder' = <<>>
  /\ cleared' = TRUE
  /\ repeatClick' = FALSE
  /\ UNCHANGED <<otherVars, variant, products, browsingHistory, recVars, pageVars,
                 serverHistory>>

\* part_006 68-71 and 93-97: the continuation after the await.
ResponseHistory(queued, m) ==
  IF m.success THEN m.browsing_history ELSE queued

\* The server takes a request. It carries it out and answers with its
\* history, or it refuses with success = false; a refusal changes nothing
\* wherever it arrives, so its delivery is part of this step.
ServerHandle(m, success) ==
  /\ m \in InFlight
  /\ m.dir = "req"
  /\ LET after == IF ~success THEN serverHistory
                  ELSE IF m.kind = "add" THEN ServerRecord(serverHistory, m.id)
                  ELSE IF m.kind = "clear" THEN <<>>
                  ELSE serverHistory
     IN /\ serverHistory' = after
        /\ net' = IF m.kind = "clear" \/ ~success THEN Take(m)
                  ELSE Take(m) (+) SetToBag({Response(m.kind, TRUE, after)})
        /\ nextHistory' =
             IF m.kind = "clear" \/ success THEN nextHistory
             ELSE ResponseHistory(nextHistory, Response(m.kind, FALSE, <<>>))
  /\ UNCHANGED <<otherVars, variant, products, browsingHistory, recVars,
                 pageVars, ghostVars>>

DeliverResponse(m) ==
  /\ m \in InFlight
  /\ m.dir = "resp"
  /\ nextHistory' = ResponseHistory(nextHistory, m)
  /\ net' = Take(m)
  /\ UNCHANGED <<otherVars, variant, products, browsingHistory, recVars, pageVars,
                 serverHistory, ghostVars>>

\* The fetch rejects: part_006 72-74, 98-100 and 132-134 log and go on.
NetworkError(m) ==
  /\ m \in InFlight
  /\ net' = Take(m)
  /\ UNCHANGED <<otherVars, variant, products, histVars, recVars, pageVars,
                 serverHistory, ghostVars>>

\* ------------------------------------------------------- recommendations
\* App.js 70-72 / part_006 106-112: setIsLoading(true) and the one call of
\* getRecommendations, which performs one fetch (part_005 112).
StartRequest ==
  /\ recCalls < MaxRequests
  /\ nextIsLoading' = TRUE
  /\ recInFlight' = recInFlight + 1
  /\ recCalls' = recCalls + 1
  /\ recAccepted' = recAccepted + 1
  /\ UNCHANGED <<recommendations, nextRecommendations, isLoading, recOutcome>>

\* App.js 67-68: the plain handler returns at once while a request is
\* loading; part_006 105-106 has no such guard.
handleGetRecommendations ==
  IF variant = "plain" /\ isLoading THEN UNCHANGED recVars ELSE StartRequest

\* The Get Personalized Recommendations button.
GetRecommendationsClick ==
  /\ ButtonEnabled
  /\ handleGetRecommendations
  /\ UNCHANGED <<otherVars, variant, products, histVars, pageVars, serverHistory, net,
                 ghostVars>>

\* part_006 170-181: the Your Recommendations navigation button.
NavRecommendationsClick ==
  /\ variant = "auth"
  /\ IF Len(recommendations) > 0
       THEN /\ nextPage' = "recommendations"
            /\ UNCHANGED <<currentPage, recVars>>
       ELSE /\ handleGetRecommendations
            /\ UNCHANGED pageVars
  /\ UNCHANGED <<otherVars, variant, products, histVars, serverHistory, net, ghostVars>>

\* part_006 164-169: the Product Catalog navigation button.
NavCatalogClick ==
  /\ variant = "auth"
  /\ nextPage' = "catalog"
  /\ UNCHANGED <<otherVars, variant, products, histVars, recVars, currentPage,
                 serverHistory, net, ghostVars>>

\* A continuation that calls the endpoint again after a failure.
RecSettleRetrying(resp) ==
  LET r == getRecommendations(resp) IN
  /\ recInFlight > 0
  /\ recInFlight' = IF r.thrown THEN recInFlight ELSE recInFlight - 1
  /\ recCalls' = IF r.thrown THEN recCalls + 1 ELSE recCalls
  /\ nextIsLoading' = ~r.thrown
  /\ recOutcome' = IF r.thrown THEN "failed" ELSE "ok"
  /\ nextRecommendations' = IF r.thrown THEN nextRecommendations ELSE r.value
  /\ UNCHANGED <<nextPage, recAccepted, recommendations, isLoading>>
  /\ UNCHANGED <<otherVars, variant, products, histVars, currentPage, serverHistory, net,
                 ghostVars>>

\* App.js 72-79 / part_006 113-120: the continuation after the await. On a
\* throw the catch logs and the finally resets the loading flag; no call is
\* issued again. part_006 113 stores data.recommendations || [], the same
\* list for the replies modelled, and then switches to the recommendations
\* page.
RecSettle(resp) ==
  LET r == getRecommendations(resp) IN
  /\ recInFlight > 0
  /\ recInFlight' = recInFlight - 1
  /\ nextIsLoading' = FALSE
  /\ recOutcome' = IF r.thrown THEN "failed" ELSE "ok"
  /\ IF r.thrown
       THEN UNCHANGED <<nextRecommendations, nextPage>>
       ELSE /\ nextRecommendations' = r.value
            /\ nextPage' = IF variant = "auth" THEN "recommendations"
                           ELSE nextPage
  /\ UNCHANGED <<recCalls, recAccepted, recommendations, isLoading>>
  /\ UNCHANGED <<otherVars, variant, products, histVars, currentPage, serverHistory, net,
                 ghostVars>>

RecReply == \E resp \in RecResponses : RecSettle(resp)

PlainClick == \E id \in ProductIds : PlainProductClick(id)

AuthClick == \E id \in ProductIds : AuthProductClick(id)

Server == \E m \in InFlight, success \in BOOLEAN : ServerHandle(m, success)

Deliver == \E m \in InFlight : DeliverResponse(m)

Lost == \E m \in InFlight : NetworkError(m)

\* The browsing history. The recommendation handlers write none of the
\* history variables, and only they move the authenticated App off the catalog
\* page, where product cards can be clicked; so every behaviour of the history
\* in the whole App is a behaviour of this specification.
Next ==
  \/ LoadProducts
  \/ Render
  \/ PlainClick
  \/ AuthClick
  \/ ClearHistory
  \/ Server
  \/ Deliver
  \/ Lost

Spec == Init /\ [][Next]_vars

\* The recommendation requests. Of the history they read only whether the
\* rendered history of the plain App is empty (the button of App.js 113), so
\* the history of the authenticated App stays as loaded here.
NextRecs ==
  \/ LoadProducts
  \/ Render
  \/ PlainClick
  \/ ClearHistory
  \/ GetRecommendationsClick
  \/ NavRecommendationsClick
  \/ NavCatalogClick
  \/ RecReply

SpecRecs == Init /\ [][NextRecs]_vars

\* The BrowsingHistory panel rendered once with given props.
RenderPanel ==
  /\ panelSummary.state = "unrendered"
  /\ panelSummary' = BrowsingHistoryPanel(panelHistory, panelProducts)
  /\ panelItems' = PanelItems(panelHistory, panelProducts)
  /\ UNCHANGED <<panelHistory, panelProducts, appVars, prefVars, filterVars,
                 parserVars, catalogVars>>

NextPanel == RenderPanel

\* part_003 is the panel of the plain App; the App itself stays as constructed.
InitPanel ==
  /\ AppInit /\ variant = "plain" /\ PanelInit
  /\ PrefsIdle /\ FilterIdle /\ ParserIdle /\ CatalogIdle

SpecPanel == InitPanel /\ [][NextPanel]_vars

\* ---------------------------------------------------- preference updates
\* The objects handlePreferencesChange is called with: every non-empty subset
\* of the three fields, with some of the values the form can hold.
PartialUpdates ==
  LET P == {"all", "0-50", "200+"}
      C == {<<>>, <<"A">>, <<"B", "A">>}
      B == {<<>>, <<"X">>}
  IN {[priceRange |-> p, categories |-> c, brands |-> b] : p \in P, c \in C, b \in B}
     \cup {[priceRange |-> p, categories |-> c] : p \in P, c \in C}
     \cup {[priceRange |-> p, brands |-> b] : p \in P, b \in B}
     \cup {[categories |-> c, brands |-> b] : c \in C, b \in B}
     \cup {[priceRange |-> p] : p \in P}
     \cup {[categories |-> c] : c \in C}
     \cup {[brands |-> b] : b \in B}

\* App.js 59-64.
handlePreferencesChange(newPreferences) ==
  /\ userPreferences' = MergePreferences(userPreferences, newPreferences)
  /\ lastUpdate' = newPreferences
  /\ UNCHANGED <<formValues, nextFormValues, appVars, panelVars, filterVars, parserVars, catalogVars>>

UpdatePreferences == \E partial \in PartialUpdates : handlePreferencesChange(partial)

NextPrefs == UpdatePreferences

InitPrefs ==
  /\ AppInit /\ variant = "plain" /\ PanelIdle /\ PrefsIdle
  /\ FilterIdle /\ ParserIdle /\ CatalogIdle

SpecPrefs == InitPrefs /\ [][NextPrefs]_vars

\* ------------------------------------------------------- preferences form
\* A handler reads the rendered formValues and replaces the queued value.
\* UserPreferences.js 33-38; the radio of a range fires onChange when it is
\* not the one rendered as checked, with the range's id as value (107-109).
handlePriceRangeChange(value) ==
  /\ value # formValues.priceRange
  /\ nextFormValues' = [formValues EXCEPT !.priceRange = value]
  /\ UNCHANGED <<formValues, userPreferences, lastUpdate, appVars, panelVars, filterVars, parserVars, catalogVars>>

\* UserPreferences.js 41-56; the box reports the opposite of what it was
\* rendered with (125-126).
handleCategoryChange(category, isChecked) ==
  /\ isChecked = (category \notin Range(formValues.categories))
  /\ nextFormValues' =
       [formValues EXCEPT !.categories = Toggled(@, category, isChecked)]
  /\ UNCHANGED <<formValues, userPreferences, lastUpdate, appVars, panelVars, filterVars, parserVars, catalogVars>>

\* UserPreferences.js 59-74.
handleBrandChange(brand, isChecked) ==
  /\ isChecked = (brand \notin Range(formValues.brands))
  /\ nextFormValues' =
       [formValues EXCEPT !.brands = Toggled(@, brand, isChecked)]
  /\ UNCHANGED <<formValues, userPreferences, lastUpdate, appVars, panelVars, filterVars, parserVars, catalogVars>>

\* Clear All with an empty string for the price range.
handleClearAllBlank ==
  /\ nextFormValues' = [priceRange |-> "", categories |-> <<>>, brands |-> <<>>]
  /\ UNCHANGED <<formValues, userPreferences, lastUpdate, appVars, panelVars, filterVars, parserVars, catalogVars>>

\* UserPreferences.js 77-83.
handleClearAll ==
  /\ nextFormValues' = [priceRange |-> "all", categories |-> <<>>, brands |-> <<>>]
  /\ UNCHANGED <<formValues, userPreferences, lastUpdate, appVars, panelVars, filterVars, parserVars, catalogVars>>

\* The form renders with the queued value, and the effect of
\* UserPreferences.js 26-30 then hands the rendered formValues to
\* handlePreferencesChange (App.js 59-64).
RenderForm ==
  /\ nextFormValues # formValues
  /\ formValues' = nextFormValues
  /\ userPreferences' = MergePreferences(userPreferences, nextFormValues)
  /\ lastUpdate' = nextFormValues
  /\ UNCHANGED <<nextFormValues, appVars, panelVars, filterVars, parserVars, catalogVars>>

PriceRangeClick == \E value \in Range(priceRanges) : handlePriceRangeChange(value)

CategoryClick ==
  \E category \in FormCategories, isChecked \in BOOLEAN :
    handleCategoryChange(category, isChecked)

BrandClick ==
  \E brand \in FormBrands, isChecked \in BOOLEAN :
    handleBrandChange(brand, isChecked)

NextForm ==
  \/ PriceRangeClick
  \/ CategoryClick
  \/ BrandClick
  \/ handleClearAll
  \/ RenderForm

InitForm ==
  /\ AppInit /\ variant = "plain" /\ PanelIdle /\ PrefsIdle
  /\ FilterIdle /\ ParserIdle /\ CatalogIdle

SpecForm == InitForm /\ [][NextForm]_vars

\* -------------------------------------------------- the service's filter
ApplyFilter ==
  /\ ~filterResult.done
  /\ filterResult' =
       [done |-> TRUE,
        products |-> PreferenceFilter(filterProducts, filterPreferences)]
  /\ UNCHANGED <<filterProducts, filterPreferences, appVars, panelVars,
                 prefVars, parserVars, catalogVars>>

NextFilter == ApplyFilter

InitFilter ==
  /\ AppInit /\ variant = "plain" /\ PanelIdle /\ PrefsIdle
  /\ FilterInit /\ ParserIdle /\ CatalogIdle

SpecFilter == InitFilter /\ [][NextFilter]_vars

\* -------------------------------------------------- the service's parser
ParseReply ==
  /\ ~parserResult.done
  /\ parserResult' =
       [done |-> TRUE,
        parsed |-> RecommendationResponseParser(parserReply, parserStore)]
  /\ UNCHANGED <<parserReply, parserStore, appVars, panelVars, prefVars,
                 filterVars, catalogVars>>

NextParser == ParseReply

InitParser ==
  /\ AppInit /\ variant = "plain" /\ PanelIdle /\ PrefsIdle
  /\ FilterIdle /\ ParserInit /\ CatalogIdle

SpecParser == InitParser /\ [][NextParser]_vars

\* ------------------------------------------------------ Catalog (part_002)
\* part_002 69-72: another sort option is selected; the Catalog renders
\* again and calls sortAndFilterProducts (line 83).
SetSortBy(value) ==
  /\ value # sortBy
  /\ sortBy' = value
  /\ catShown' = sortAndFilterProducts(catProducts, value, filterCategory).returned
  /\ catProducts' = sortAndFilterProducts(catProducts, value, filterCategory).products
  /\ UNCHANGED <<filterCategory, appVars, panelVars, prefVars, filterVars,
                 parserVars>>

\* part_002 55-64: another option of the category select, "" or one of the
\* categories of the products.
SetFilterCategory(value) ==
  /\ value # filterCategory
  /\ value = "" \/ \E i \in 1..Len(catProducts) : catProducts[i].category = value
  /\ filterCategory' = value
  /\ catShown' = sortAndFilterProducts(catProducts, sortBy, value).returned
  /\ catProducts' = sortAndFilterProducts(catProducts, sortBy, value).products
  /\ UNCHANGED <<sortBy, appVars, panelVars, prefVars, filterVars, parserVars>>

SortSelect == \E value \in SortOptions : SetSortBy(value)

CategorySelect == \E value \in {"", "A", "B"} : SetFilterCategory(value)

NextCatalog == SortSelect \/ CategorySelect

InitCatalog ==
  /\ AppInit /\ variant = "plain" /\ PanelIdle /\ PrefsIdle
  /\ FilterIdle /\ ParserIdle /\ CatalogInit

SpecCatalog == InitCatalog /\ [][NextCatalog]_vars

\* ------------------------------------------------------------------ claims
Rendered ==
  <<nextHistory, nextRecommendations, nextIsLoading, nextPage>>
    = <<browsingHistory, recommendations, isLoading, currentPage>>

FirstIndex(s, x) == CHOOSE i \in 1..Len(s) : s[i] = x /\ \A j \in 1..(i - 1) : s[j] # x

Click(id) == PlainProductClick(id) \/ AuthProductClick(id)

C2_NoDuplicateIds == NoDuplicates(browsingHistory) /\ NoDuplicates(nextHistory)

\* C3: once every queued update is rendered, every id clicked since the last
\* clear is in the browsing history.
C3_ClickedIdsKept ==
  nextHistory = browsingHistory => Range(viewOrder) \subseteq Range(browsingHistory)

\* C4: the history lists the ids in the order of their first views: the views
\* p1, p2, p1 give <<p1, p2>>, and of two ids in the history the one first
\* viewed earlier comes first.
C4_FirstViewOrder ==
  nextHistory = browsingHistory =>
    /\ (viewOrder = <<"p1", "p2">> /\ Range(browsingHistory) = {"p1", "p2"})
         => browsingHistory = <<"p1", "p2">>
    /\ \A i, j \in 1..Len(viewOrder) :
         (/\ i < j
          /\ viewOrder[i] \in Range(browsingHistory)
          /\ viewOrder[j] \in Range(browsingHistory))
           => FirstIndex(browsingHistory, viewOrder[i])
                < FirstIndex(browsingHistory, viewOrder[j])

\* C5: from a clear until the next product click the browsing history is
\* empty: no update queued after the clear makes it non-empty.
C5_ClearedStaysEmpty == cleared => nextHistory = <<>>

\* C6: at most one recommendation request is in flight at any time: while a
\* request is pending and the loading state is rendered, no step sends
\* another call to the endpoint.
C6_SingleRequestInFlight ==
  [][(isLoading /\ recInFlight > 0) => recCalls' = recCalls]_vars

\* C7: every accepted invocation of handleGetRecommendations has made exactly
\* one call to the endpoint, whether the call succeeded, failed or is still
\* awaited: a failure is never followed by a call of its own.
C7_OneCallPerInvocation ==
  /\ recCalls = recAccepted
  /\ recInFlight <= recCalls

\* Two invocations were accepted, both calls are settled and the last failed.
C7_Witness ==
  /\ recAccepted = 2
  /\ recInFlight = 0
  /\ recOutcome = "failed"

\* C8: once a failed request is settled and rendered, the session shows an
\* error state for it.
C8_ErrorStateShown ==
  (recOutcome = "failed" /\ recInFlight = 0 /\ Rendered)
    => RecommendationsView(isLoading, recommendations) = "error"

Failed(resp) == ~resp.ok \/ ~resp.parsable \/ ~resp.success

\* C9: a failed call yields no list: getRecommendations throws on a status
\* that is not ok, on an unparsable body and on success = false, and the
\* handler that catches it leaves the recommendations, rendered and queued, as
\* they were.
C9_FailureKeepsRecommendations ==
  [][\A resp \in RecResponses :
       (RecSettle(resp) /\ Failed(resp))
         => /\ getRecommendations(resp).thrown
            /\ DOMAIN getRecommendations(resp) = {"thrown"}
            /\ UNCHANGED <<recommendations, nextRecommendations>>]_vars

\* A request failed after an earlier one had delivered a list, which is still
\* the one shown.
C9_Witness ==
  /\ recOutcome = "failed"
  /\ recCalls = 2
  /\ recInFlight = 0
  /\ Len(recommendations) > 0
  /\ nextRecommendations = recommendations

\* The positions of the history whose id is the id of a catalog product.
Resolved ==
  {i \in 1..Len(panelHistory) :
     \E k \in 1..Len(panelProducts) : panelProducts[k].id = panelHistory[i]}

ProductOf(id) == CHOOSE p \in Range(panelProducts) : p.id = id

Views(c) ==
  Cardinality({i \in Resolved : ProductOf(panelHistory[i]).category = c})

RECURSIVE PriceSum(_)
PriceSum(S) ==
  IF S = {} THEN 0
  ELSE LET i == CHOOSE i \in S : TRUE
       IN ProductOf(panelHistory[i]).price + PriceSum(S \ {i})

\* C10: the summary names a category that no other category exceeds in the
\* number of history entries resolving to a product of it, and its average is
\* the mean price of exactly the resolved entries, to the nearest cent; ids
\* matching no product count for neither.
C10_SummaryOfResolved ==
  panelSummary.state = "summary" =>
    LET n == Cardinality(Resolved)
        shown == panelSummary.mostViewedCategory
    IN /\ n > 0
       /\ Views(shown) > 0
       /\ \A c \in Categories : Views(c) <= Views(shown)
       /\ 2 * (panelSummary.avgPrice * n - 100 * PriceSum(Resolved)) \in (1 - n)..n

\* A summary of a history with an id matching no product between two products
\* of the same category at 10 and 25 dollars: average 17.50.
C10_Witness ==
  /\ panelSummary.state = "summary"
  /\ Len(panelHistory) = 3
  /\ panelHistory[2] = "p9"
  /\ Cardinality(Resolved) = 2
  /\ Views(panelSummary.mostViewedCategory) = 2
  /\ panelSummary.avgPrice = 1750

\* The resolved position at which a category is met first when the panel
\* goes through its products, the most recent entry first.
FirstMet(c) ==
  CHOOSE i \in Resolved :
    /\ ProductOf(panelHistory[i]).category = c
    /\ \A j \in Resolved : ProductOf(panelHistory[j]).category = c => j <= i

\* C11: of the categories that share the highest count, the summary names the
\* one the panel meets first in its products (the history's resolved entries,
\* most recent first).
C11_TieGoesToFirstMet ==
  panelSummary.state = "summary" =>
    \A c \in Categories :
      (c # panelSummary.mostViewedCategory
         /\ Views(c) = Views(panelSummary.mostViewedCategory))
        => FirstMet(c) < FirstMet(panelSummary.mostViewedCategory)

\* Two categories with one view each; the summary names the one viewed later.
C11_Witness ==
  /\ panelSummary.state = "summary"
  /\ panelHistory = <<"p1", "p2">>
  /\ Views("A") = 1
  /\ Views("B") = 1
  /\ ProductOf("p1").category = "A"
  /\ panelSummary.mostViewedCategory = "B"

\* C12: a history that resolves to no product gets the empty panel and no
\* summary; a summary is only ever computed over at least one product, so its
\* average is a number.
C12_NoSummaryOfNothing ==
  panelSummary.state # "unrendered" =>
    /\ Resolved = {} <=> panelSummary.state = "empty"
    /\ panelSummary.state = "summary" =>
         /\ ~panelSummary.avgIsNaN
         /\ panelSummary.mostViewedCategory \in Categories

\* A rendered panel whose history holds only ids of no product of a
\* non-empty catalog.
C12_Witness ==
  /\ panelSummary.state = "empty"
  /\ Len(panelHistory) = 2
  /\ Len(panelProducts) = 3
  /\ Resolved = {}

\* The k-th history position, counted from the oldest, whose id is the id of
\* a product.
KthResolved(k) ==
  CHOOSE i \in Resolved : Cardinality({j \in Resolved : j <= i}) = k

\* list is the products of the matching ids, oldest entry first.
InHistoryOrder(list) ==
  /\ Len(list) = Cardinality(Resolved)
  /\ \A k \in 1..Len(list) : list[k] = ProductOf(panelHistory[KthResolved(k)])

\* list is the products of the matching ids, most recent entry first.
MostRecentFirst(list) ==
  /\ Len(list) = Cardinality(Resolved)
  /\ \A k \in 1..Len(list) :
       list[k] = ProductOf(panelHistory[KthResolved(Len(list) + 1 - k)])

Stale == (1..Len(panelHistory)) \ Resolved

\* C13 as stated: an id of no product is skipped and a warning is logged for
\* it, and the resolved list of each panel is the products of the matching
\* ids in history order.
C13_SkippedWithWarning ==
  panelSummary.state # "unrendered" =>
    /\ Stale # {} => panelItems.logged # <<>>
    /\ InHistoryOrder(panelItems.part003)
    /\ InHistoryOrder(panelItems.part004)

\* C13, amended: an id of no product is skipped and nothing is logged; the
\* resolved list is exactly the products of the matching ids, in history
\* order in the panel of part_004 and most recent first in that of part_003.
C13_SkippedSilently ==
  panelSummary.state # "unrendered" =>
    /\ panelItems.logged = <<>>
    /\ MostRecentFirst(panelItems.part003)
    /\ InHistoryOrder(panelItems.part004)

\* A rendered panel whose history has an id of no product between two ids of
\* different products.
C13_Witness ==
  /\ panelSummary.state = "summary"
  /\ panelHistory = <<"p1", "p9", "p2">>
  /\ Len(panelItems.part003) = 2
  /\ panelItems.part003[1].id = "p2"
  /\ panelItems.part004[1].id = "p1"

\* C14: the list shown is the list received. When a request settles with a
\* successful reply, the cards of the list the App stores are the entries of
\* the reply, in the reply's order, the entry at index i - 1 under rank i; and
\* a render shows the stored list as it is.
C14_ShownAsReceived ==
  [][/\ \A resp \in RecResponses :
          (RecSettle(resp) /\ ~Failed(resp))
            => LET cards == RecommendationCards(nextRecommendations')
               IN /\ Len(cards) = Len(resp.recommendations)
                  /\ \A i \in 1..Len(cards) :
                       /\ cards[i].entry = resp.recommendations[i]
                       /\ cards[i].rank = i
     /\ Render => recommendations' = nextRecommendations]_vars

\* A reply of two entries was received and is on screen, its first entry
\* first.
C14_Witness ==
  /\ recOutcome = "ok"
  /\ Rendered
  /\ RecommendationsView(isLoading, recommendations) = "list"
  /\ RecommendationCards(recommendations)
       = <<[rank |-> 1, entry |-> "p2"], [rank |-> 2, entry |-> "p1"]>>

PreferenceFields == {"priceRange", "categories", "brands"}

\* C15: an update of the preferences is last-write-wins per field: after
\* handlePreferencesChange(partial) every field partial supplies has partial's
\* value and every other field has the value it had, and no field is added
\* or lost.
C15_LastWriteWinsPerField ==
  [][\A partial \in PartialUpdates :
       handlePreferencesChange(partial)
         => /\ DOMAIN userPreferences' = PreferenceFields
            /\ \A f \in PreferenceFields :
                 userPreferences'[f] = IF f \in DOMAIN partial THEN partial[f]
                                       ELSE userPreferences[f]]_vars

\* The last update supplied the categories only; price range and brands are
\* those of earlier updates.
C15_Witness ==
  /\ lastUpdate = [categories |-> <<"A">>]
  /\ userPreferences =
       [priceRange |-> "0-50", categories |-> <<"A">>, brands |-> <<"X">>]

\* C18: the price range of the form, rendered or queued, and the one handed
\* to the App, is always 'all' or one of the four bucket ids.
C18_PriceRangeEnumerated ==
  \A v \in {formValues, nextFormValues, userPreferences} :
    v.priceRange \in {"all", "0-50", "50-100", "100-200", "200+"}

\* After a range, a category and a brand were chosen, Clear All was pressed
\* and is not rendered yet.
C18_Witness ==
  /\ formValues = [priceRange |-> "200+", categories |-> <<"A">>, brands |-> <<"X">>]
  /\ userPreferences = formValues
  /\ nextFormValues = InitialPreferences

\* The positions of the filter's input that the stated rule admits.
Admitted ==
  LET prices == CASE filterPreferences.priceRange = "all" -> Int
                  [] filterPreferences.priceRange = "0-50" -> 0..49
                  [] filterPreferences.priceRange = "50-100" -> 50..99
                  [] filterPreferences.priceRange = "100-200" -> 100..199
                  [] filterPreferences.priceRange = "200+" -> Int \ (0..199)
                  [] filterPreferences.priceRange = "100+" -> Int \ (0..99)
  IN {i \in 1..Len(filterProducts) :
        /\ filterProducts[i].price \in prices
        /\ \/ filterPreferences.categories = {}
           \/ filterProducts[i].category \in filterPreferences.categories
        /\ \/ filterPreferences.brands = {}
           \/ filterProducts[i].brand \in filterPreferences.brands}

\* C16: the filter returns exactly the products whose price is in the
\* half-open bucket selected, whose category is selected if any category is
\* and whose brand is selected if any brand is, each once and in the order of
\* the catalog.
C16_FilterExact ==
  filterResult.done =>
    /\ Len(filterResult.products) = Cardinality(Admitted)
    /\ \A k \in 1..Len(filterResult.products) :
         filterResult.products[k] = filterProducts[Kth(Admitted, k)]

\* The whole pool filtered by the bucket 50-100 with no category and no brand
\* selected: the product at 50 is kept, the product at 100 is not.
C16_Witness ==
  /\ filterResult.done
  /\ filterProducts = FilterPool
  /\ filterPreferences = [priceRange |-> "50-100", categories |-> {}, brands |-> {}]
  /\ Len(filterResult.products) = 1
  /\ filterResult.products[1].id = "p3"

\* The positions of the reply whose product is in the store.
Known ==
  {i \in 1..Len(parserReply.entries) :
     parserReply.entries[i].product_id \in parserStore}

\* C17: of a well-formed reply the parser returns the entries of known
\* products, all of them and only them, in the order of the reply, and it
\* does not fail, however many entries it drops.
C17_DropsExactlyUnknown ==
  (parserResult.done /\ parserReply.wellFormed) =>
    LET parsed == parserResult.parsed IN
    /\ ~parsed.failed
    /\ Len(parsed.recommendations) = Cardinality(Known)
    /\ \A k \in 1..Len(parsed.recommendations) :
         /\ parsed.recommendations[k].product
              = parserReply.entries[Kth(Known, k)].product_id
         /\ parsed.recommendations[k].product \in parserStore

\* A reply with an entry of no product between two entries of known ones.
C17_Witness ==
  /\ parserResult.done
  /\ parserReply.wellFormed
  /\ Len(parserReply.entries) = 3
  /\ parserReply.entries[1].product_id = "p2"
  /\ parserReply.entries[2].product_id = "p9"
  /\ parserReply.entries[3].product_id = "p1"
  /\ Len(parserResult.parsed.recommendations) = 2
  /\ parserResult.parsed.warnings = 1

\* The products of the selected category, all of them when none is selected.
Selected(cat) ==
  {i \in 1..Len(catProducts) : cat = "" \/ catProducts[i].category = cat}

\* C20: what sortAndFilterProducts returns holds each product of the
\* selected category once and nothing else, and the products array is after
\* the call what it was before.
C20_PermutationOfSelected ==
  [][/\ catProducts' = catProducts
     /\ Len(catShown') = Cardinality(Selected(filterCategory'))
     /\ \A i \in Selected(filterCategory') :
          Cardinality({k \in 1..Len(catShown') : catShown'[k] = catProducts[i]}) = 1]_vars

\* Three products not given in order of price, shown by price with a category
\* selected that one of them is not of.
C20_Witness ==
  /\ Len(catProducts) = 3
  /\ catProducts[1].id = "p1"
  /\ catProducts[2].id = "p2"
  /\ catProducts[3].id = "p3"
  /\ sortBy = "price-low"
  /\ filterCategory = "A"
  /\ Len(catShown) = 2
  /\ catShown[1].id = "p3"

\* The catalog the App hands to the panel next to the history.
AppCatalog ==
  <<[id |-> "p1", category |-> "A", price |-> 10],
    [id |-> "p2", category |-> "B", price |-> 25]>>

\* C19: the panel lists the most recent view first. Whenever a click on a
\* product is handled from the current render, the panel given the history
\* that results lists that product first.
C19_LastViewedFirst ==
  [][\A id \in ProductIds :
       (Click(id) /\ nextHistory = browsingHistory)
         => LET shown == getHistoryProducts(nextHistory', AppCatalog)
            IN Len(shown) > 0 /\ shown[1].id = id]_vars

\* C21: the cards shown are in the order of the selected key: price not
\* decreasing for 'price-low', price not increasing for 'price-high', rating
\* not increasing for 'rating', and name ascending (in the order of
\* localeCompare) otherwise.
C21_OrderedBySelectedKey ==
  \A i, j \in 1..Len(catShown) :
    i < j =>
      CASE sortBy = "price-low" -> catShown[i].price <= catShown[j].price
        [] sortBy = "price-high" -> catShown[i].price >= catShown[j].price
        [] sortBy = "rating" -> catShown[i].rating >= catShown[j].rating
        [] OTHER -> localeCompare(catShown[i].name, catShown[j].name) <= 0

\* Three products given in order of rising rating and shown by rating.
C21_Witness ==
  /\ sortBy = "rating"
  /\ filterCategory = ""
  /\ Len(catProducts) = 3
  /\ catProducts[1].id = "p4"
  /\ catProducts[2].id = "p2"
  /\ catProducts[3].id = "p1"
  /\ catShown[1].id = "p1"
  /\ catShown[3].id = "p4"

\* C22, its first half: in every rendered state in which a recommendation
\* request is awaiting its reply, the loading flag is true.
C22_LoadingWhileInFlight ==
  (recInFlight > 0 /\ Rendered) => isLoading

\* C23: in the authenticated App, whenever the delivery of an
\* addToBrowsingHistory response leaves no request and no response on its
\* way, the local history is the history the server holds. Stated for the
\* deliveries at which the server still holds every id it answered with, so
\* that only product clicks, and no clearing, stand between the two.
C23_LocalEqualsServer ==
  [][\A m \in InFlight :
       (/\ DeliverResponse(m)
        /\ m.kind = "add"
        /\ net' = EmptyBag
        /\ Range(m.browsing_history) \subseteq Range(serverHistory))
         => nextHistory' = serverHistory']_vars

\* A toggle of a category or of a brand, handled from the current render.
CategoryToggle(c, isChecked) ==
  handleCategoryChange(c, isChecked) /\ nextFormValues = formValues

BrandToggle(b, isChecked) ==
  handleBrandChange(b, isChecked) /\ nextFormValues = formValues

\* C24: a toggle handled from the current render adds the item when its box
\* is checked and removes it when unchecked; the list it leaves has no
\* duplicates; unchecking the item once the check is rendered gives the list
\* back as it was; and the toggle of a category leaves priceRange and brands
\* as they were, the toggle of a brand priceRange and categories.
C24_TogglesAddAndRemove ==
  [][/\ \A c \in FormCategories, isChecked \in BOOLEAN :
          CategoryToggle(c, isChecked)
            => /\ (c \in Range(nextFormValues'.categories)) = isChecked
               /\ Range(nextFormValues'.categories) \ {c}
                    = Range(formValues.categories) \ {c}
               /\ NoDuplicates(nextFormValues'.categories)
               /\ isChecked => Toggled(nextFormValues'.categories, c, FALSE)
                                 = formValues.categories
               /\ nextFormValues'.priceRange = formValues.priceRange
               /\ nextFormValues'.brands = formValues.brands
     /\ \A b \in FormBrands, isChecked \in BOOLEAN :
          BrandToggle(b, isChecked)
            => /\ (b \in Range(nextFormValues'.brands)) = isChecked
               /\ Range(nextFormValues'.brands) \ {b}
                    = Range(formValues.brands) \ {b}
               /\ NoDuplicates(nextFormValues'.brands)
               /\ isChecked => Toggled(nextFormValues'.brands, b, FALSE)
                                 = formValues.brands
               /\ nextFormValues'.priceRange = formValues.priceRange
               /\ nextFormValues'.categories = formValues.categories]_vars

\* With a price range, two categories and a brand rendered, the category
\* checked first was unchecked.
C24_Witness ==
  /\ formValues =
       [priceRange |-> "0-50", categories |-> <<"A", "B">>, brands |-> <<"X">>]
  /\ nextFormValues =
       [priceRange |-> "0-50", categories |-> <<"B">>, brands |-> <<"X">>]

====
